---- MODULE Spec2Model ----
(***************************************************************************)
(* Model of the UVAtlas wrapper library: the Mesh helper class (Mesh.cpp,  *)
(* Mesh.h) and the exported pipeline entry point UVAtlas                   *)
(* (UVAtlasClass.cpp).                                                     *)
(*                                                                         *)
(* Three specifications share the variables:                               *)
(*   Spec          any sequence of Mesh member calls on one Mesh object    *)
(*   SpecPipeline  repeated invocations of the entry point UVAtlas         *)
(*   SpecOverflow  the argument checks of SetIndexData and the overflow    *)
(*                 check of GenerateAdjacency on face counts around the    *)
(*                 32-bit boundary                                         *)
(***************************************************************************)
EXTENDS Integers, Sequences, FiniteSets

\* ------------------------------------------------------------------ bounds

\* Largest face count a caller passes whose index array is really stored.
MaxFaces == 2
\* Largest vertex count a caller passes.
MaxVerts == 5
\* Half-width of the window of face counts tried around the 32-bit boundary.
OvSpan == 40

\* ----------------------------------------------------------- HRESULT codes

S_OK == "S_OK"
E_INVALIDARG == "E_INVALIDARG"
E_OUTOFMEMORY == "E_OUTOFMEMORY"
E_UNEXPECTED == "E_UNEXPECTED"
E_ARITHMETIC_OVERFLOW == "ERROR_ARITHMETIC_OVERFLOW"
\* A failure code produced inside the external DirectXMesh / UVAtlas library.
E_FAIL == "E_FAIL"

FAILED(h) == h # S_OK

\* What a failing call into the external library may return.
ExternalFailures == {E_FAIL}

\* -------------------------------------------------------------- unique_ptr

\* std::unique_ptr<T[]>: empty, or owning an array.
NULL == [null |-> TRUE, data |-> <<>>]
Buf(d) == [null |-> FALSE, data |-> d]
BufLen(b) == Len(b.data)

\* The sentinel "no neighbour / unused" of the external library, (uint32_t)-1.
\* Array elements here are small, so the sentinel is written -1.
UNUSED == 0 - 1

\* --------------------------------------------------- 32/64-bit arithmetic

\* 2^16: numbers above 2^31 are held as two limbs <<high, low>>.
Limb == 65536

\* uint64_t(n) * 3 as <<high, low>>, for 0 <= n < 2^31.
Mul3(n) ==
    LET lo == 3 * (n % Limb)
        hi == 3 * (n \div Limb) + (lo \div Limb)
    IN  <<hi, lo % Limb>>

\* UINT32_MAX = 2^32 - 1 as <<high, low>>.
UINT32_MAX == <<Limb - 1, Limb - 1>>

\* a >= b on limb pairs.
LimbGE(a, b) == a[1] > b[1] \/ (a[1] = b[1] /\ a[2] >= b[2])

IndexCountOverflows_Strict(n) == ~LimbGE(UINT32_MAX, Mul3(n))

\* (uint64_t(nFaces) * 3) >= UINT32_MAX
IndexCountOverflows(n) == LimbGE(Mul3(n), UINT32_MAX)

\* --------------------------------------------------------------- variables

VARIABLES
    \* class Mesh
    mnFaces, mnVerts, mIndices, mAttributes, mAdjacency, mPositions, mNormals,
    \* the last member call: its name, arguments, locals and HRESULT
    call, hr,
    \* history of the setters since construction or Clear: per setter "never"
    \* (no success yet), "set" (its last success still stands) or "released"
    \* (a later call of it failed after releasing the buffer), and whether the
    \* most recent setter call failed
    hist,
    \* UVAtlas(): position in the function, the caller's data, the unique_ptr
    \* inMesh, the vectors UVAtlasCreate filled, returnCode, the returned
    \* pointer, and the stages invoked so far with their HRESULTs
    pc, data, inMesh, atlas, returnCode, result, stages,
    \* history of the invocations of UVAtlas: the failure kind of this run,
    \* whether an allocation failed in it, and <<returnCode, failure kind>> of
    \* the failed run before it
    run,
    \* SpecOverflow: the face count, whether the index pointer is non-null,
    \* the outcome of the checks
    ovN, ovPtr, ovRes

meshVars == <<mnFaces, mnVerts, mIndices, mAttributes, mAdjacency, mPositions, mNormals>>
callVars == <<call, hr, hist>>
pipeVars == <<pc, data, inMesh, atlas, returnCode, result, stages, run>>
ovVars == <<ovN, ovPtr, ovRes>>
vars == <<meshVars, callVars, pipeVars, ovVars>>

\* The whole Mesh object as one value.
mesh == [nFaces |-> mnFaces, nVerts |-> mnVerts, indices |-> mIndices,
         attributes |-> mAttributes, adjacency |-> mAdjacency,
         positions |-> mPositions, normals |-> mNormals]

\* ------------------------------------------------------------ caller input

\* The face count 1431655765 with 3 * faceCount = 2^32 - 1.
BoundaryFaces == 1431655765

\* Index arrays a caller passes, each of 3 * MaxFaces entries (a caller's array
\* may be longer than the 3 * nFaces entries read).
\*   strip:  face f is <<f, f+1, f+2>>
\*   bowtie: face f is <<0, 2f+1, 2f+2>>, all faces meeting in vertex 0
\*   point:  every index is 0
StripIndices == [i \in 1..(3 * MaxFaces) |-> ((i - 1) \div 3) + ((i - 1) % 3)]
BowtieIndices == [i \in 1..(3 * MaxFaces) |->
                    IF (i - 1) % 3 = 0 THEN 0 ELSE 2 * ((i - 1) \div 3) + ((i - 1) % 3)]
PointIndices == [i \in 1..(3 * MaxFaces) |-> 0]
IndexArrays == {Buf(StripIndices), Buf(BowtieIndices), Buf(PointIndices), NULL}

\* Face counts a caller passes: small ones, and the one at the boundary.
FaceCounts == (0..MaxFaces) \cup {BoundaryFaces}

\* Coordinate arrays a caller passes, each of MaxVerts entries.
RampCoords == [i \in 1..MaxVerts |-> i]
FlatCoords == [i \in 1..MaxVerts |-> 0]
\* The <<xs, ys, zs>> a caller passes.
CoordInputs == {<<RampCoords, FlatCoords, FlatCoords>>, <<FlatCoords, RampCoords, RampCoords>>}

\* Clean is followed while the vertex count stays within this many vertices.
MaxCleanVerts == MaxVerts + 1

VertCounts == 0..MaxVerts

\* --------------------------------------------------------------- class Mesh

\* Mesh::Mesh() and the default-constructed unique_ptr members.
MeshInit ==
    /\ mnFaces = 0
    /\ mnVerts = 0
    /\ mIndices = NULL
    /\ mAttributes = NULL
    /\ mAdjacency = NULL
    /\ mPositions = NULL
    /\ mNormals = NULL

\* void Mesh::Clear()
Clear ==
    /\ mnFaces' = 0
    /\ mnVerts' = 0
    /\ mIndices' = NULL
    /\ mAttributes' = NULL
    /\ mAdjacency' = NULL
    /\ mPositions' = NULL
    /\ mNormals' = NULL

\* The argument checks that open SetIndexData: the HRESULT returned before the
\* mesh is touched, or S_OK when the call goes on to allocate.
SetIndexDataChecks(nFaces, indicesNull) ==
    IF nFaces = 0 \/ indicesNull THEN E_INVALIDARG
    ELSE IF IndexCountOverflows(nFaces) THEN E_ARITHMETIC_OVERFLOW
    ELSE S_OK

SetIndexData_ResetFirst(nFaces, indices, allocOk) ==
    LET chk == SetIndexDataChecks(nFaces, indices.null) IN
    /\ mAttributes' = NULL
    /\ UNCHANGED <<mnVerts, mAdjacency, mPositions, mNormals>>
    /\ IF FAILED(chk)
       THEN mnFaces' = 0 /\ mIndices' = NULL /\ hr' = chk
       ELSE IF ~allocOk
       THEN mnFaces' = 0 /\ mIndices' = NULL /\ hr' = E_OUTOFMEMORY
       ELSE /\ mIndices' = Buf(SubSeq(indices.data, 1, 3 * nFaces))
            /\ mnFaces' = nFaces
            /\ hr' = S_OK

\* HRESULT Mesh::SetIndexData(size_t nFaces, const uint32_t* indices)
\* allocOk: whether new (std::nothrow) uint32_t[nFaces * 3] returns an array.
SetIndexData(nFaces, indices, allocOk) ==
    LET chk == SetIndexDataChecks(nFaces, indices.null) IN
    IF FAILED(chk)
    THEN hr' = chk /\ UNCHANGED meshVars
    ELSE /\ mAttributes' = NULL
         /\ UNCHANGED <<mnVerts, mAdjacency, mPositions, mNormals>>
         /\ IF ~allocOk
            THEN mnFaces' = 0 /\ mIndices' = NULL /\ hr' = E_OUTOFMEMORY
            ELSE /\ mIndices' = Buf(SubSeq(indices.data, 1, 3 * nFaces))
                 /\ mnFaces' = nFaces
                 /\ hr' = S_OK

\* HRESULT Mesh::SetVertexData(float* xs, float* ys, float* zs, size_t nVerts)
\* allocOk: whether new (std::nothrow) XMFLOAT3[nVerts] returns an array.
SetVertexData(xs, ys, zs, nVerts, allocOk) ==
    IF nVerts = 0
    THEN hr' = E_INVALIDARG /\ UNCHANGED meshVars
    ELSE /\ mNormals' = NULL
         /\ UNCHANGED <<mnFaces, mIndices, mAttributes, mAdjacency>>
         /\ IF ~allocOk
            THEN mnVerts' = 0 /\ mPositions' = NULL /\ hr' = E_OUTOFMEMORY
            ELSE /\ mPositions' = Buf([i \in 1..nVerts |-> <<xs[i], ys[i], zs[i]>>])
                 /\ mnVerts' = nVerts
                 /\ hr' = S_OK

\* ------------------------------------------- external library (DirectXMesh)

\* The vertices of face f (1-based) of the index array ix.
FaceVerts(ix, f) == {ix[3 * f - 2], ix[3 * f - 1], ix[3 * f]}

\* Every index of the nFaces faces of ix is below nVerts.
IndicesInRange(ix, nFaces, nVerts) ==
    \A i \in 1..(3 * nFaces) : ix[i] >= 0 /\ ix[i] < nVerts

SetMin(S) == CHOOSE x \in S : \A y \in S : x <= y

\* The faces of Fv reached from the faces S across edges (two shared vertices).
RECURSIVE FanOf(_, _, _)
FanOf(ix, S, Fv) ==
    LET N == S \cup {g \in Fv : \E f \in S : Cardinality(FaceVerts(ix, f) \cap FaceVerts(ix, g)) >= 2}
    IN  IF N = S THEN S ELSE FanOf(ix, N, Fv)

\* Bowtie breaking: for each vertex v in turn, the faces around v that are not
\* in the fan of the first face around v get a duplicate of v, appended after
\* the nVerts existing vertices, and their entries v are rewritten to it.
\* Degenerate faces are left alone.
RECURSIVE BreakBowties(_, _, _, _, _)
BreakBowties(v, ix, dups, nFaces, nVerts) ==
    IF v >= nVerts THEN [indices |-> ix, dups |-> dups]
    ELSE
        LET Fv == {f \in 1..nFaces : v \in FaceVerts(ix, f) /\ Cardinality(FaceVerts(ix, f)) = 3}
            rest == IF Fv = {} THEN {} ELSE Fv \ FanOf(ix, {SetMin(Fv)}, Fv)
        IN  IF rest = {} THEN BreakBowties(v + 1, ix, dups, nFaces, nVerts)
            ELSE
                LET fan == FanOf(ix, {SetMin(rest)}, rest)
                    newV == nVerts + Len(dups)
                    ix2 == [i \in 1..Len(ix) |->
                              IF ((i + 2) \div 3) \in fan /\ ix[i] = v THEN newV ELSE ix[i]]
                IN  BreakBowties(v, ix2, Append(dups, v), nFaces, nVerts)

\* DirectX::Clean(indices, nFaces, nVerts, adjacency, attributes, dups,
\* breakBowties): what it may return, with the index array as it leaves it and
\* the duplications it reports. It rejects an index outside the vertex range;
\* bowties are found through the adjacency; attributes are never supplied here.
DirectXClean(ix, nFaces, nVerts, adjacencyNull, breakBowties) ==
    LET out(h, r) == [hr |-> h, indices |-> r.indices, dups |-> r.dups]
        same == [indices |-> ix, dups |-> <<>>]
    IN
    IF ~IndicesInRange(ix, nFaces, nVerts)
    THEN {out(E_UNEXPECTED, same)}
    ELSE {out(h, same) : h \in ExternalFailures}
         \cup {out(S_OK, IF breakBowties /\ ~adjacencyNull
                         THEN BreakBowties(0, ix, <<>>, nFaces, nVerts)
                         ELSE same)}

\* DirectX::Validate, DirectX::GenerateAdjacencyAndPointReps and
\* DirectX::ComputeNormals: the HRESULTs they may return for these indices.
DirectXOutcomes(ix, nFaces, nVerts) ==
    IF IndicesInRange(ix, nFaces, nVerts)
    THEN {S_OK} \cup ExternalFailures
    ELSE {E_UNEXPECTED}

\* The contents of an adjacency array of n entries; only its presence and its
\* length are read by the wrapper.
AdjacencyArray(n) == [i \in 1..n |-> UNUSED]

\* The contents of a normal array of n entries.
NormalArray(n) == [i \in 1..n |-> <<0, 0, 1>>]

\* ------------------------------------------------- class Mesh, derived data

NotPopulated_FacesOnly == mnFaces = 0 \/ mIndices.null

\* !mnFaces || !mIndices || !mnVerts || !mPositions
NotPopulated == mnFaces = 0 \/ mIndices.null \/ mnVerts = 0 \/ mPositions.null

\* !mnFaces || !mIndices || !mnVerts
ValidateNotPopulated == mnFaces = 0 \/ mIndices.null \/ mnVerts = 0

\* HRESULT Mesh::Validate(DWORD flags, std::wstring* msgs) const
\* ext: the HRESULT of DirectX::Validate.
Validate(ext) ==
    /\ UNCHANGED meshVars
    /\ hr' = IF ValidateNotPopulated THEN E_UNEXPECTED ELSE ext

Clean_CountNotUpdated(ext, posOk, normOk) ==
    IF NotPopulated
    THEN hr' = E_UNEXPECTED /\ UNCHANGED meshVars
    ELSE
        LET nNewVerts == mnVerts + Len(ext.dups)
            grown(old) == [j \in 1..nNewVerts |->
                             IF j <= mnVerts THEN old[j]
                             ELSE old[ext.dups[j - mnVerts] + 1]]
        IN
        /\ mIndices' = Buf(ext.indices)
        /\ UNCHANGED <<mnFaces, mnVerts, mAttributes, mAdjacency>>
        /\ IF FAILED(ext.hr)
           THEN hr' = ext.hr /\ UNCHANGED <<mPositions, mNormals>>
           ELSE IF ext.dups = <<>>
           THEN hr' = S_OK /\ UNCHANGED <<mPositions, mNormals>>
           ELSE IF ~posOk \/ (~mNormals.null /\ ~normOk)
           THEN hr' = E_OUTOFMEMORY /\ UNCHANGED <<mPositions, mNormals>>
           ELSE /\ mPositions' = Buf(grown(mPositions.data))
                /\ mNormals' = IF mNormals.null THEN NULL ELSE Buf(grown(mNormals.data))
                /\ hr' = S_OK

\* HRESULT Mesh::Clean(bool breakBowties)
\* ext: the outcome of DirectX::Clean, which rewrites the index array in place;
\* posOk, normOk: whether the two new (std::nothrow) XMFLOAT3[nNewVerts] succeed.
Clean(ext, posOk, normOk) ==
    IF NotPopulated
    THEN hr' = E_UNEXPECTED /\ UNCHANGED meshVars
    ELSE
        LET nNewVerts == mnVerts + Len(ext.dups)
            grown(old) == [j \in 1..nNewVerts |->
                             IF j <= mnVerts THEN old[j]
                             ELSE old[ext.dups[j - mnVerts] + 1]]
        IN
        /\ mIndices' = Buf(ext.indices)
        /\ UNCHANGED <<mnFaces, mAttributes, mAdjacency>>
        /\ IF FAILED(ext.hr)
           THEN hr' = ext.hr /\ UNCHANGED <<mnVerts, mPositions, mNormals>>
           ELSE IF ext.dups = <<>>
           THEN hr' = S_OK /\ UNCHANGED <<mnVerts, mPositions, mNormals>>
           ELSE IF ~posOk \/ (~mNormals.null /\ ~normOk)
           THEN hr' = E_OUTOFMEMORY /\ UNCHANGED <<mnVerts, mPositions, mNormals>>
           ELSE /\ mPositions' = Buf(grown(mPositions.data))
                /\ mNormals' = IF mNormals.null THEN NULL ELSE Buf(grown(mNormals.data))
                /\ mnVerts' = nNewVerts
                /\ hr' = S_OK

\* HRESULT Mesh::GenerateAdjacency(float epsilon)
\* ext: the HRESULT of DirectX::GenerateAdjacencyAndPointReps;
\* allocOk: whether new (std::nothrow) uint32_t[mnFaces * 3] returns an array.
GenerateAdjacency(ext, allocOk) ==
    IF NotPopulated
    THEN hr' = E_UNEXPECTED /\ UNCHANGED meshVars
    ELSE IF IndexCountOverflows(mnFaces)
    THEN hr' = E_ARITHMETIC_OVERFLOW /\ UNCHANGED meshVars
    ELSE /\ UNCHANGED <<mnFaces, mnVerts, mIndices, mAttributes, mPositions, mNormals>>
         /\ IF ~allocOk
            THEN mAdjacency' = NULL /\ hr' = E_OUTOFMEMORY
            ELSE mAdjacency' = Buf(AdjacencyArray(mnFaces * 3)) /\ hr' = ext

\* HRESULT Mesh::ComputeNormals(DWORD flags)
\* ext: the HRESULT of DirectX::ComputeNormals;
\* allocOk: whether new (std::nothrow) XMFLOAT3[mnVerts] returns an array.
ComputeNormals(ext, allocOk) ==
    IF NotPopulated
    THEN hr' = E_UNEXPECTED /\ UNCHANGED meshVars
    ELSE /\ UNCHANGED <<mnFaces, mnVerts, mIndices, mAttributes, mAdjacency, mPositions>>
         /\ IF ~allocOk
            THEN mNormals' = NULL /\ hr' = E_OUTOFMEMORY
            ELSE mNormals' = Buf(NormalArray(mnVerts)) /\ hr' = ext

\* ------------------------------------------------ calls on one Mesh object

\* The mesh after the step is the mesh before it with one sub-buffer released
\* and its count at zero: the face data, the vertex data, the adjacency array
\* or the normal array.
SubBufferReset ==
    \/ mesh' = [mesh EXCEPT !.nFaces = 0, !.indices = NULL, !.attributes = NULL]
    \/ mesh' = [mesh EXCEPT !.nVerts = 0, !.positions = NULL, !.normals = NULL]
    \/ mesh' = [mesh EXCEPT !.adjacency = NULL]
    \/ mesh' = [mesh EXCEPT !.normals = NULL]

\* Every index of the mesh is below vertexCount.
MeshIndicesInRange == IndicesInRange(mIndices.data, mnFaces, mnVerts)

\* What the step did to the mesh: nothing, released one sub-buffer, or else.
Effect ==
    IF mesh' = mesh THEN "same"
    ELSE IF SubBufferReset THEN "reset"
    ELSE "changed"

\* The record of a member call: its name, the face count and whether the index
\* pointer was null (SetIndexData), the duplications DirectX::Clean reported
\* (Clean), what the call did to the mesh, and whether every index was below
\* vertexCount before it.
CallRec(op, nFaces, indicesNull, dups) ==
    [op |-> op, nFaces |-> nFaces, indicesNull |-> indicesNull, dups |-> dups,
     effect |-> Effect, preInRange |-> MeshIndicesInRange]

NoCall == [op |-> "none", nFaces |-> 0, indicesNull |-> FALSE, dups |-> <<>>,
           effect |-> "same", preInRange |-> TRUE]

HistInit == [idx |-> "never", vtx |-> "never", lastSetterFailed |-> FALSE]

\* The history entry of a setter after a call of it that returned h.
SetterHist(old, h) ==
    IF h = S_OK THEN "set"
    ELSE IF h = E_OUTOFMEMORY /\ old = "set" THEN "released"
    ELSE old

\* UVAtlasData* as returned: nullptr, or a new UVAtlasData.
NullResult == [null |-> TRUE, numVertices |-> 0, numFaces |-> 0, indexCount |-> 0, remapCount |-> 0]

NoAtlas == [vb |-> 0, indexCount |-> 0, remap |-> 0]

RunInit == [kind |-> "none", allocFailed |-> FALSE, prev |-> <<0, "none">>]

PipeIdle ==
    /\ pc = "idle"
    /\ data = [numFaces |-> 0, indices |-> NULL, numVertices |-> 0, coords |-> <<FlatCoords, FlatCoords, FlatCoords>>]
    /\ inMesh = "none"
    /\ atlas = NoAtlas
    /\ returnCode = 0
    /\ result = NullResult
    /\ stages = <<>>
    /\ run = RunInit

OvIdle == ovN = 0 /\ ovPtr = FALSE /\ ovRes = [op |-> "none", hr |-> S_OK]

Init ==
    /\ MeshInit
    /\ call = NoCall
    /\ hr = S_OK
    /\ hist = HistInit
    /\ PipeIdle
    /\ OvIdle

DoClear ==
    /\ Clear
    /\ call' = CallRec("Clear", 0, FALSE, <<>>)
    /\ hist' = HistInit
    /\ UNCHANGED <<hr, pipeVars, ovVars>>

DoSetIndexData ==
    \E allocFails \in BOOLEAN, nFaces \in FaceCounts, indices \in IndexArrays :
        /\ SetIndexData(nFaces, indices, ~allocFails)
        /\ call' = CallRec("SetIndexData", nFaces, indices.null, <<>>)
        /\ hist' = [hist EXCEPT !.idx = SetterHist(@, hr'), !.lastSetterFailed = FAILED(hr')]
        /\ UNCHANGED <<pipeVars, ovVars>>

DoSetVertexData ==
    \E allocFails \in BOOLEAN, c \in CoordInputs, nVerts \in VertCounts :
        /\ SetVertexData(c[1], c[2], c[3], nVerts, ~allocFails)
        /\ call' = CallRec("SetVertexData", 0, FALSE, <<>>)
        /\ hist' = [hist EXCEPT !.vtx = SetterHist(@, hr'), !.lastSetterFailed = FAILED(hr')]
        /\ UNCHANGED <<pipeVars, ovVars>>

DoValidate ==
    \E ext \in DirectXOutcomes(mIndices.data, mnFaces, mnVerts) :
        /\ Validate(ext)
        /\ call' = CallRec("Validate", 0, FALSE, <<>>)
        /\ UNCHANGED <<hist, pipeVars, ovVars>>

DoClean ==
    \E breakBowties \in BOOLEAN, posOk \in BOOLEAN, normOk \in BOOLEAN :
        \E ext \in DirectXClean(mIndices.data, mnFaces, mnVerts, mAdjacency.null, breakBowties) :
            /\ mnVerts + Len(ext.dups) <= MaxCleanVerts
            /\ Clean(ext, posOk, normOk)
            /\ call' = CallRec("Clean", 0, FALSE, IF NotPopulated THEN <<>> ELSE ext.dups)
            /\ UNCHANGED <<hist, pipeVars, ovVars>>

DoGenerateAdjacency ==
    \E ext \in DirectXOutcomes(mIndices.data, mnFaces, mnVerts), allocOk \in BOOLEAN :
        /\ GenerateAdjacency(ext, allocOk)
        /\ call' = CallRec("GenerateAdjacency", 0, FALSE, <<>>)
        /\ UNCHANGED <<hist, pipeVars, ovVars>>

DoComputeNormals ==
    \E ext \in DirectXOutcomes(mIndices.data, mnFaces, mnVerts), allocOk \in BOOLEAN :
        /\ ComputeNormals(ext, allocOk)
        /\ call' = CallRec("ComputeNormals", 0, FALSE, <<>>)
        /\ UNCHANGED <<hist, pipeVars, ovVars>>

Next ==
    \/ DoClear
    \/ DoSetIndexData
    \/ DoSetVertexData
    \/ DoValidate
    \/ DoClean
    \/ DoGenerateAdjacency
    \/ DoComputeNormals

Spec == Init /\ [][Next]_vars

\* ------------------------------------------------------ claims on the Mesh

\* C1: SetIndexData called with faceCount = 0 or with a null index array
\* returns E_INVALIDARG and leaves the whole mesh as it was.
C1_InvalidArgumentLeavesMesh ==
    (call.op = "SetIndexData" /\ (call.nFaces = 0 \/ call.indicesNull))
        => (hr = E_INVALIDARG /\ call.effect = "same")

\* C1 witness: a null index array with a non-zero face count was rejected on a
\* mesh that holds faces, vertices and an adjacency array.
C1_Witness ==
    /\ call.op = "SetIndexData"
    /\ call.indicesNull
    /\ call.nFaces > 0
    /\ hr = E_INVALIDARG
    /\ mnFaces > 0
    /\ mnVerts > 0
    /\ ~mAdjacency.null

\* C3: whenever the adjacency array is present its length is the length of the
\* index array, 3 * faceCount.
C3_AdjacencyLengthIsIndexLength ==
    ~mAdjacency.null =>
        (BufLen(mAdjacency) = BufLen(mIndices) /\ BufLen(mAdjacency) = 3 * mnFaces)

StageOps == {"Validate", "Clean", "GenerateAdjacency", "ComputeNormals"}

\* C4 as stated: a stage called on a mesh on which the two setters have not
\* both succeeded since construction or Clear, or whose most recent setter call
\* failed, returns E_UNEXPECTED and leaves the whole mesh as it was.
\* (The stages leave the setters' history as it is, so hist is the history the
\* stage was called with.)
C4_NotReadyAfterAnyFailedSetter ==
    (call.op \in StageOps
       /\ (hist.idx = "never" \/ hist.vtx = "never" \/ hist.lastSetterFailed))
        => (hr = E_UNEXPECTED /\ call.effect = "same")

\* C4 amended: a stage called on a mesh on which, since construction or Clear,
\* one of the two setters has never succeeded, or has failed with
\* E_OUTOFMEMORY after its last success, returns E_UNEXPECTED and leaves the
\* whole mesh as it was (so no adjacency or normal array is created).
C4_NotReadyUnlessBothSet ==
    (call.op \in StageOps /\ (hist.idx # "set" \/ hist.vtx # "set"))
        => (hr = E_UNEXPECTED /\ call.effect = "same")

\* C4 witness: GenerateAdjacency answered E_UNEXPECTED on a mesh whose index
\* data was set and then released by a SetIndexData that ran out of memory,
\* while the vertex data is still set.
C4_Witness ==
    /\ call.op = "GenerateAdjacency"
    /\ hr = E_UNEXPECTED
    /\ hist.idx = "released"
    /\ hist.vtx = "set"

\* C5: a successful Clean keeps faceCount and sets vertexCount to its previous
\* value plus the number of duplications reported; the position array, and the
\* normal array when present, have the new length; with no duplication
\* vertexCount, positions and normals are untouched.
C5_CleanGrowsByDuplications ==
    [][(call'.op = "Clean" /\ hr' = S_OK)
         => /\ mnFaces' = mnFaces
            /\ mnVerts' = mnVerts + Len(call'.dups)
            /\ BufLen(mPositions') = mnVerts'
            /\ (~mNormals'.null => BufLen(mNormals') = mnVerts')
            /\ (call'.dups = <<>> =>
                  (mnVerts' = mnVerts /\ mPositions' = mPositions /\ mNormals' = mNormals))]_vars

\* C5 witness: a Clean that duplicated a vertex succeeded on a mesh that has
\* normals.
C5_Witness ==
    /\ call.op = "Clean"
    /\ hr = S_OK
    /\ call.dups # <<>>
    /\ ~mNormals.null
    /\ mnVerts > MaxVerts

MutatingOps == {"SetIndexData", "SetVertexData", "Clean", "GenerateAdjacency", "ComputeNormals"}

\* C6: after a mutating Mesh operation returns a failure the mesh is as before
\* the call or has one sub-buffer fully reset, the index array has 3 * faceCount
\* entries, the position array has vertexCount entries, and every index is
\* below vertexCount if that held before the call (and the vertex data was not
\* the sub-buffer reset).
C6_FailureLeavesMeshConsistent ==
    (call.op \in MutatingOps /\ FAILED(hr))
        => /\ call.effect \in {"same", "reset"}
           /\ BufLen(mIndices) = 3 * mnFaces
           /\ BufLen(mPositions) = mnVerts
           /\ ((call.preInRange /\ mnVerts # 0) => MeshIndicesInRange)

\* --------------------------------------------- face counts at the boundary

\* The face counts tried: small ones and a window around the boundary.
OvInputs == (0..2) \cup ((BoundaryFaces - OvSpan)..(BoundaryFaces + OvSpan))

OvInit ==
    /\ MeshInit
    /\ hr = S_OK
    /\ hist = HistInit
    /\ call = NoCall
    /\ PipeIdle
    /\ ovN \in OvInputs
    /\ ovPtr \in BOOLEAN
    /\ ovRes = [op |-> "none", hr |-> S_OK]

\* The checks of SetIndexData(ovN, indices), indices non-null iff ovPtr.
OvSetIndexData ==
    /\ ovRes' = [op |-> "SetIndexData", hr |-> SetIndexDataChecks(ovN, ~ovPtr)]
    /\ UNCHANGED <<meshVars, callVars, pipeVars, ovN, ovPtr>>

\* The overflow check of GenerateAdjacency on a mesh of ovN faces. A mesh gets
\* its face count from a successful SetIndexData only.
OvGenerateAdjacency ==
    /\ SetIndexDataChecks(ovN, FALSE) = S_OK
    /\ ovRes' = [op |-> "GenerateAdjacency",
                 hr |-> IF IndexCountOverflows(ovN) THEN E_ARITHMETIC_OVERFLOW ELSE S_OK]
    /\ UNCHANGED <<meshVars, callVars, pipeVars, ovN, ovPtr>>

OvNext == OvSetIndexData \/ OvGenerateAdjacency

SpecOverflow == OvInit /\ [][OvNext]_vars

\* C2 as stated: with non-null data and a non-zero face count SetIndexData
\* reports the overflow exactly when 3 * faceCount > 2^32 - 1, that is when
\* faceCount > 1431655765 (3 * 1431655765 = 2^32 - 1), and GenerateAdjacency
\* applies the same bound.
C2_OverflowAboveUint32Max ==
    /\ (ovRes.op = "SetIndexData" /\ ovPtr /\ ovN > 0)
          => ((ovRes.hr = E_ARITHMETIC_OVERFLOW) <=> (ovN > BoundaryFaces))
    /\ (ovRes.op = "GenerateAdjacency")
          => ((ovRes.hr = E_ARITHMETIC_OVERFLOW) <=> (ovN > BoundaryFaces))

\* C2 amended: the overflow is reported exactly when 3 * faceCount >= 2^32 - 1,
\* that is when faceCount >= 1431655765: the boundary face count itself is
\* rejected; GenerateAdjacency applies the same bound.
C2_OverflowFromUint32Max ==
    /\ (ovRes.op = "SetIndexData" /\ ovPtr /\ ovN > 0)
          => ((ovRes.hr = E_ARITHMETIC_OVERFLOW) <=> (ovN >= BoundaryFaces))
    /\ (ovRes.op = "GenerateAdjacency")
          => ((ovRes.hr = E_ARITHMETIC_OVERFLOW) <=> (ovN >= BoundaryFaces))

\* C2 witness: SetIndexData was given the boundary face count with non-null
\* data and reported the overflow.
C2_Witness ==
    /\ ovRes.op = "SetIndexData"
    /\ ovPtr
    /\ ovN = BoundaryFaces
    /\ ovRes.hr = E_ARITHMETIC_OVERFLOW

\* ------------------------------------------- the entry point UVAtlas(...)

\* What the caller passes in UVAtlasData: numFaces and numVertices are
\* uint32_t, indices an array of at least 3 * numFaces entries or null.
PipeInputs ==
    {[numFaces |-> f, indices |-> ix, numVertices |-> v, coords |-> c] :
        f \in FaceCounts, ix \in IndexArrays, v \in VertCounts, c \in CoordInputs}

\* The failure kind a failing HRESULT of a stage stands for.
KindOf(stage, h) ==
    IF h = E_INVALIDARG THEN "bad-input"
    ELSE IF h = E_ARITHMETIC_OVERFLOW THEN "index-overflow"
    ELSE IF h = E_OUTOFMEMORY THEN "allocation-failure"
    ELSE IF stage = "UVAtlasCreate" THEN "packing-failure"
    ELSE "adjacency-failure"

\* A stage was called and returned h.
Logged(stage, h) == stages' = Append(stages, [name |-> stage, hr |-> h])

\* if (FAILED(hr)) { returnCode = code; return nullptr; }, or go on at next.
ReturnIfFailed(stage, code, next) ==
    IF FAILED(hr')
    THEN /\ returnCode' = code
         /\ result' = NullResult
         /\ pc' = "returned"
         /\ run' = [run EXCEPT !.kind = KindOf(stage, hr'),
                               !.allocFailed = @ \/ hr' = E_OUTOFMEMORY]
    ELSE /\ pc' = next
         /\ UNCHANGED <<returnCode, result, run>>

\* The caller invokes UVAtlas; returnCode = 1. No Mesh exists yet: the one of
\* the run before was destroyed with its unique_ptr when that run returned.
PipeCall ==
    /\ pc \in {"idle", "returned"}
    /\ data' \in PipeInputs
    /\ returnCode' = 1
    /\ pc' = "alloc_mesh"
    /\ inMesh' = "none"
    /\ atlas' = NoAtlas
    /\ result' = NullResult
    /\ stages' = <<>>
    /\ run' = [kind |-> "none", allocFailed |-> FALSE,
               prev |-> IF pc = "returned" /\ returnCode # 0
                        THEN <<returnCode, run.kind>> ELSE run.prev]
    /\ Clear
    /\ hr' = S_OK
    /\ UNCHANGED <<call, hist, ovVars>>

\* inMesh.reset(new (std::nothrow) Mesh): a Mesh as Mesh() constructs it (both
\* counts zero, every unique_ptr empty), or nullptr.
PipeAllocMesh ==
    /\ pc = "alloc_mesh"
    /\ \E allocFails \in BOOLEAN :
         /\ inMesh' = IF allocFails THEN "null" ELSE "mesh"
         /\ run' = [run EXCEPT !.allocFailed = allocFails]
    /\ Clear
    /\ pc' = "set_index"
    /\ UNCHANGED <<callVars, ovVars, data, atlas, returnCode, result, stages>>

\* inMesh->SetIndexData(data->numFaces, data->indices) through a null inMesh.
\* The argument checks read no member of the Mesh and return their HRESULT;
\* past them the call writes mnFaces through the null pointer, which ends the
\* process with an access violation.
PipeSetIndexDataOnNull ==
    /\ pc = "set_index"
    /\ inMesh = "null"
    /\ IF FAILED(SetIndexDataChecks(data.numFaces, data.indices.null))
       THEN /\ hr' = SetIndexDataChecks(data.numFaces, data.indices.null)
            /\ Logged("SetIndexData", hr')
            /\ ReturnIfFailed("SetIndexData", 2, "set_vertex")
       ELSE /\ pc' = "crashed"
            /\ UNCHANGED <<hr, stages, returnCode, result, run>>
    /\ UNCHANGED <<meshVars, call, hist, ovVars, data, inMesh, atlas>>

PipeSetIndexData_FallsThrough ==
    /\ pc = "set_index"
    /\ inMesh = "mesh"
    /\ \E allocOk \in BOOLEAN : SetIndexData(data.numFaces, data.indices, allocOk)
    /\ Logged("SetIndexData", hr')
    /\ pc' = "set_vertex"
    /\ UNCHANGED <<returnCode, result, run>>
    /\ UNCHANGED <<call, hist, ovVars, data, inMesh, atlas>>

\* hr = inMesh->SetIndexData(data->numFaces, data->indices); returnCode 2.
PipeSetIndexData ==
    /\ pc = "set_index"
    /\ inMesh = "mesh"
    /\ \E allocOk \in BOOLEAN : SetIndexData(data.numFaces, data.indices, allocOk)
    /\ Logged("SetIndexData", hr')
    /\ ReturnIfFailed("SetIndexData", 2, "set_vertex")
    /\ UNCHANGED <<call, hist, ovVars, data, inMesh, atlas>>

\* hr = inMesh->SetVertexData(xs, ys, zs, data->numVertices); returnCode 3.
PipeSetVertexData ==
    /\ pc = "set_vertex"
    /\ \E allocOk \in BOOLEAN :
         SetVertexData(data.coords[1], data.coords[2], data.coords[3], data.numVertices, allocOk)
    /\ Logged("SetVertexData", hr')
    /\ ReturnIfFailed("SetVertexData", 3, "gen_adjacency")
    /\ UNCHANGED <<call, hist, ovVars, data, inMesh, atlas>>

\* hr = inMesh->GenerateAdjacency(adjacencyEpsilon); returnCode 4.
PipeGenerateAdjacency ==
    /\ pc = "gen_adjacency"
    /\ \E ext \in DirectXOutcomes(mIndices.data, mnFaces, mnVerts), allocOk \in BOOLEAN :
         GenerateAdjacency(ext, allocOk)
    /\ Logged("GenerateAdjacency", hr')
    /\ ReturnIfFailed("GenerateAdjacency", 4, "create_atlas")
    /\ UNCHANGED <<call, hist, ovVars, data, inMesh, atlas>>

\* UVAtlasCreate of the external UVAtlas library: it fails, or fills vb, ib and
\* vertexRemapArray. The output has the input's faces and at least its
\* vertices (vertices on chart seams are duplicated).
UVAtlasCreateOutcomes ==
    {[hr |-> h, atlas |-> NoAtlas] : h \in {E_FAIL, E_OUTOFMEMORY}}
    \cup {[hr |-> S_OK, atlas |-> [vb |-> n, indexCount |-> 3 * data.numFaces, remap |-> n]] :
            n \in {mnVerts, mnVerts + 1}}

\* hr = UVAtlasCreate(positions, vertex count, indices, ..., adjacency, ...,
\* vb, ib, ..., &vertexRemapArray, ...); returnCode 5.
PipeUVAtlasCreate ==
    /\ pc = "create_atlas"
    /\ \E out \in UVAtlasCreateOutcomes :
         /\ hr' = out.hr
         /\ atlas' = out.atlas
    /\ Logged("UVAtlasCreate", hr')
    /\ ReturnIfFailed("UVAtlasCreate", 5, "build_result")
    /\ UNCHANGED <<meshVars, call, hist, ovVars, data, inMesh>>

\* new UVAtlasData, new float[] twice, new uint32_t[] twice, the copies,
\* returnCode = 0, return result. Each new throws std::bad_alloc when it
\* fails, and nothing in the function catches it.
PipeBuildResult ==
    /\ pc = "build_result"
    /\ \E failing \in {"none", "UVAtlasData", "us", "vs", "indices", "vertexRemap"} :
         IF failing = "none"
         THEN /\ result' = [null |-> FALSE, numVertices |-> atlas.vb,
                            numFaces |-> atlas.indexCount \div 3,
                            indexCount |-> atlas.indexCount, remapCount |-> atlas.remap]
              /\ returnCode' = 0
              /\ pc' = "returned"
              /\ UNCHANGED run
         ELSE /\ pc' = "threw"
              /\ run' = [run EXCEPT !.allocFailed = TRUE]
              /\ UNCHANGED <<result, returnCode>>
    /\ UNCHANGED <<meshVars, callVars, ovVars, data, inMesh, atlas, stages>>

PipeNext ==
    \/ PipeCall
    \/ PipeAllocMesh
    \/ PipeSetIndexDataOnNull
    \/ PipeSetIndexData
    \/ PipeSetVertexData
    \/ PipeGenerateAdjacency
    \/ PipeUVAtlasCreate
    \/ PipeBuildResult

SpecPipeline == Init /\ [][PipeNext]_vars

\* -------------------------------------------------- claims on the pipeline

StageNames == [i \in 1..Len(stages) |-> stages[i].name]

\* C7: two runs that fail for different failure kinds never report the same
\* returnCode (here: this failed run and the failed run before it).
C7_ReturnCodeTellsFailureKind ==
    (pc = "returned" /\ returnCode # 0 /\ run.prev[1] = returnCode)
        => run.prev[2] = run.kind

\* C8: a stage that returns a failure is the last stage invoked and the call
\* has returned nullptr with a non-zero returnCode; a returned result is
\* non-null exactly when returnCode is 0, and then index ingestion, vertex
\* ingestion, adjacency generation and atlas packing have all succeeded.
C8_FailedStageEndsRun ==
    /\ \A i \in 1..Len(stages) :
         FAILED(stages[i].hr) =>
            /\ i = Len(stages)
            /\ pc = "returned"
            /\ result.null
            /\ returnCode # 0
    /\ pc = "returned" =>
         /\ ~result.null <=> returnCode = 0
         /\ returnCode = 0 =>
              /\ StageNames = <<"SetIndexData", "SetVertexData", "GenerateAdjacency", "UVAtlasCreate">>
              /\ \A i \in 1..Len(stages) : stages[i].hr = S_OK

\* C8 witness: vertex ingestion failed after index ingestion had succeeded,
\* and the call has returned.
C8_Witness ==
    /\ pc = "returned"
    /\ Len(stages) = 2
    /\ stages[1].hr = S_OK
    /\ FAILED(stages[2].hr)
    /\ returnCode = 3
    /\ result.null

\* C9: when the atlas packer has been invoked, the stages invoked before it
\* are index data, vertex data, Clean and GenerateAdjacency, in that order,
\* each having succeeded.
C9_CleanRunsBeforeAdjacency ==
    (\E k \in 1..Len(stages) : stages[k].name = "UVAtlasCreate")
        => /\ Len(stages) = 5
           /\ StageNames = <<"SetIndexData", "SetVertexData", "Clean", "GenerateAdjacency", "UVAtlasCreate">>
           /\ \A i \in 1..4 : stages[i].hr = S_OK

\* C10: no allocation failure ends the call by a write through a null pointer
\* or by an exception leaving the function, and a call that returns after an
\* allocation failed returns nullptr and a non-zero returnCode.
C10_AllocationFailuresAreReturned ==
    /\ pc \notin {"crashed", "threw"}
    /\ (pc = "returned" /\ run.allocFailed) => (result.null /\ returnCode # 0)
====
